---- MODULE Spec2Model ----
(***************************************************************************)
(* A model of TraitCompiler                                                *)
(* (packages/compiler-cli/src/ngtsc/transform/src/compilation.ts):         *)
(* the matching of DecoratorHandlers against a class, the lifecycle of the *)
(* traits through analyze and resolve, the read-only passes typeCheck,     *)
(* index, compile and decoratorsFor, and the recording of NgModule scope   *)
(* dependencies.                                                           *)
(***************************************************************************)
EXTENDS Integers, Sequences, FiniteSets, TLC

VARIABLES
  handlers,      \* this.handlers: the registry, a sequence of DecoratorHandlers
  program,       \* the classes being compiled: the named classes of each source file,
                 \* whether each may be compiled and which handlers' detect matches it
  scanInput,     \* the class under scanClassForTraits: eligibility and which handlers detect it
  scanIdx,       \* position of the `for (const handler of this.handlers)` loop
  scanRecord,    \* the local `record` of scanClassForTraits
  scanCalls,     \* the handlers whose detect() has been called, in call order
  scanPc,        \* "loop" while the for loop runs, "returned" once scanClassForTraits returned
  classes,       \* this.classes: ClassDeclaration -> ClassRecord
  classOrder,    \* the key order of this.classes (a Map iterates in insertion order)
  heap,          \* the Trait objects ever created by matching, by identity
  reexportMap,   \* this.reexportMap: file name -> alias -> [fromModule, symbolName]
  tasks,         \* the promises `preanalysis.then(analyze)` not settled yet
  joins,         \* per analyze call, the state of the Promise.all(...) it returned
  scopes,        \* what scopeRegistry.getCompilationScopes() returns
  edges,         \* the file dependencies the incremental driver holds, as (from, to)
  nAnalyze,      \* analyzeSync/analyzeAsync calls made so far
  nResolve,      \* resolve() calls made so far
  lastOp         \* the last call made on the compiler and what it did

scanVars == <<scanInput, scanIdx, scanRecord, scanCalls, scanPc>>
progVars == <<classes, classOrder, heap, reexportMap, tasks, joins, scopes, edges,
              nAnalyze, nResolve, lastOp>>
vars == <<handlers, program, scanVars, progVars>>

\* ------------------------------------------------------------------ bounds

\* Longest handler registry explored by the matching specification.
MaxHandlers == 3

\* analyzeSync/analyzeAsync calls explored in one run of the compiler.
MaxAnalyzeCalls == 2

\* resolve() calls explored in one run of the compiler.
MaxResolveCalls == 2

\* Longest list of compilation scopes explored by the dependency specification.
MaxScopes == 2

\* ---------------------------------------------------------- handlers, traits

PRIMARY == "PRIMARY"
WEAK == "WEAK"
SHARED == "SHARED"

\* HandlerPrecedence: PRIMARY, WEAK, or the default (SHARED).
HandlerPrecedence == {PRIMARY, SHARED, WEAK}

\* A DecoratorHandler as the compiler sees it: its precedence and which of the
\* optional methods it defines.
DecoratorHandler(prec, pre, res, tc, idx) ==
  [precedence |-> prec, preanalyze |-> pre, resolve |-> res, typeCheck |-> tc, index |-> idx,
   trigger |-> "decorator"]

\* ts.Diagnostic built at the PRIMARY collision.
CollisionDiagnostic(clazz) ==
  [code |-> "DECORATOR_COLLISION", node |-> clazz,
   messageText |-> "Two incompatible decorators on class", origin |-> 0]

\* `metaDiagnostics: ts.Diagnostic[]|null`
NullDiagnostics == [isNull |-> TRUE, list |-> <<>>]
SomeDiagnostics(ds) == [isNull |-> FALSE, list |-> ds]

\* `let record: ClassRecord|null = null`
NullRecord ==
  [isNull |-> TRUE, node |-> "none", traits |-> <<>>, metaDiagnostics |-> NullDiagnostics,
   hasPrimaryHandler |-> FALSE, hasWeakHandlers |-> FALSE]

\* Trait.pending(handler, result) as scanClassForTraits holds it: the trait is
\* named by the position of its handler in the registry.
PrecedenceOf(hs, t) == hs[t].precedence

\* ScanHandler with the PRIMARY collision check left out: a second PRIMARY
\* trait is appended like any other.
ScanHandlerNoCollision(hs, clazz, record, i, detected) ==
  LET isPrimaryHandler == hs[i].precedence = PRIMARY
      isWeakHandler == hs[i].precedence = WEAK
      NotWeak(t) == PrecedenceOf(hs, t) # WEAK
  IN IF ~detected
       THEN [record |-> record, returned |-> FALSE]
     ELSE IF record.isNull
       THEN [record |-> [isNull |-> FALSE, node |-> clazz, traits |-> <<i>>,
                         metaDiagnostics |-> NullDiagnostics,
                         hasPrimaryHandler |-> isPrimaryHandler,
                         hasWeakHandlers |-> isWeakHandler],
             returned |-> FALSE]
     ELSE IF isWeakHandler /\ ~record.hasWeakHandlers
       THEN [record |-> record, returned |-> FALSE]
     ELSE
       LET filtered ==
             IF ~isWeakHandler /\ record.hasWeakHandlers
               THEN [record EXCEPT !.traits = SelectSeq(record.traits, NotWeak),
                                   !.hasWeakHandlers = FALSE]
               ELSE record
       IN [record |-> [filtered EXCEPT
                         !.traits = Append(filtered.traits, i),
                         !.hasPrimaryHandler = filtered.hasPrimaryHandler \/ isPrimaryHandler],
           returned |-> FALSE]

\* ScanHandler with the removal of WEAK traits left out when a non-WEAK handler
\* matches.
ScanHandlerKeepsWeak(hs, clazz, record, i, detected) ==
  LET isPrimaryHandler == hs[i].precedence = PRIMARY
      isWeakHandler == hs[i].precedence = WEAK
  IN IF ~detected
       THEN [record |-> record, returned |-> FALSE]
     ELSE IF record.isNull
       THEN [record |-> [isNull |-> FALSE, node |-> clazz, traits |-> <<i>>,
                         metaDiagnostics |-> NullDiagnostics,
                         hasPrimaryHandler |-> isPrimaryHandler,
                         hasWeakHandlers |-> isWeakHandler],
             returned |-> FALSE]
     ELSE IF isWeakHandler /\ ~record.hasWeakHandlers
       THEN [record |-> record, returned |-> FALSE]
     ELSE IF isPrimaryHandler /\ record.hasPrimaryHandler
       THEN [record |-> [record EXCEPT
                           !.metaDiagnostics = SomeDiagnostics(<<CollisionDiagnostic(clazz)>>),
                           !.traits = <<>>],
             returned |-> TRUE]
     ELSE [record |-> [record EXCEPT
                         !.traits = Append(record.traits, i),
                         !.hasPrimaryHandler = record.hasPrimaryHandler \/ isPrimaryHandler],
           returned |-> FALSE]

\* ScanHandler whose PRIMARY collision sets the diagnostic and empties traits
\* but goes on with the loop (`continue` in place of `return record`).
ScanHandlerCollisionContinues(hs, clazz, record, i, detected) ==
  LET isPrimaryHandler == hs[i].precedence = PRIMARY
      isWeakHandler == hs[i].precedence = WEAK
      NotWeak(t) == PrecedenceOf(hs, t) # WEAK
  IN IF ~detected
       THEN [record |-> record, returned |-> FALSE]
     ELSE IF record.isNull
       THEN [record |-> [isNull |-> FALSE, node |-> clazz, traits |-> <<i>>,
                         metaDiagnostics |-> NullDiagnostics,
                         hasPrimaryHandler |-> isPrimaryHandler,
                         hasWeakHandlers |-> isWeakHandler],
             returned |-> FALSE]
     ELSE IF isWeakHandler /\ ~record.hasWeakHandlers
       THEN [record |-> record, returned |-> FALSE]
     ELSE
       LET filtered ==
             IF ~isWeakHandler /\ record.hasWeakHandlers
               THEN [record EXCEPT !.traits = SelectSeq(record.traits, NotWeak),
                                   !.hasWeakHandlers = FALSE]
               ELSE record
       IN IF isPrimaryHandler /\ filtered.hasPrimaryHandler
            THEN [record |-> [filtered EXCEPT
                                !.metaDiagnostics = SomeDiagnostics(<<CollisionDiagnostic(clazz)>>),
                                !.traits = <<>>],
                  returned |-> FALSE]
            ELSE [record |-> [filtered EXCEPT
                                !.traits = Append(filtered.traits, i),
                                !.hasPrimaryHandler = filtered.hasPrimaryHandler \/ isPrimaryHandler],
                  returned |-> FALSE]

\* One iteration of `for (const handler of this.handlers)` for the handler at
\* position i. detected: whether handler.detect returned a result. Gives the
\* record after the iteration and whether the function returned from inside it.
ScanHandler(hs, clazz, record, i, detected) ==
  LET isPrimaryHandler == hs[i].precedence = PRIMARY
      isWeakHandler == hs[i].precedence = WEAK
      NotWeak(t) == PrecedenceOf(hs, t) # WEAK
  IN IF ~detected
       THEN [record |-> record, returned |-> FALSE]
     ELSE IF record.isNull
       THEN [record |-> [isNull |-> FALSE, node |-> clazz, traits |-> <<i>>,
                         metaDiagnostics |-> NullDiagnostics,
                         hasPrimaryHandler |-> isPrimaryHandler,
                         hasWeakHandlers |-> isWeakHandler],
             returned |-> FALSE]
     ELSE IF isWeakHandler /\ ~record.hasWeakHandlers
       THEN [record |-> record, returned |-> FALSE]
     ELSE
       LET filtered ==
             IF ~isWeakHandler /\ record.hasWeakHandlers
               THEN [record EXCEPT !.traits = SelectSeq(record.traits, NotWeak),
                                   !.hasWeakHandlers = FALSE]
               ELSE record
       IN IF isPrimaryHandler /\ filtered.hasPrimaryHandler
            THEN [record |-> [filtered EXCEPT
                                !.metaDiagnostics = SomeDiagnostics(<<CollisionDiagnostic(clazz)>>),
                                !.traits = <<>>],
                  returned |-> TRUE]
            ELSE [record |-> [filtered EXCEPT
                                !.traits = Append(filtered.traits, i),
                                !.hasPrimaryHandler = filtered.hasPrimaryHandler \/ isPrimaryHandler],
                  returned |-> FALSE]

\* The loop of scanClassForTraits from position i on: the record returned and
\* the handlers whose detect was called.
RECURSIVE ScanFrom(_, _, _, _, _, _)
ScanFrom(hs, clazz, detects, record, calls, i) ==
  IF i > Len(hs) THEN [record |-> record, calls |-> calls]
  ELSE LET step == ScanHandler(hs, clazz, record, i, i \in detects)
       IN IF step.returned
            THEN [record |-> step.record, calls |-> Append(calls, i)]
            ELSE ScanFrom(hs, clazz, detects, step.record, Append(calls, i), i + 1)

\* scanClassForTraits(clazz): null for a class that is not exported when only
\* exported classes are compiled, else the result of the loop.
scanClassForTraits(hs, clazz, eligible, detects) ==
  IF ~eligible THEN [record |-> NullRecord, calls |-> <<>>]
  ELSE ScanFrom(hs, clazz, detects, NullRecord, <<>>, 1)

SeqToSet(q) == {q[k] : k \in 1..Len(q)}

\* ------------------------------------------------------------- Trait objects

PENDING == "PENDING"
ANALYZED == "ANALYZED"
SKIPPED == "SKIPPED"
ERRORED == "ERRORED"
RESOLVED == "RESOLVED"

\* TraitState
TraitState == {PENDING, ANALYZED, RESOLVED, ERRORED, SKIPPED}

\* Trait.pending(handler, detected): a new trait in state PENDING. h is the
\* position of the handler in the registry; analyzeCalls and resolveCalls count
\* the calls of handler.analyze and handler.resolve made for this trait, and
\* analyzeDid and resolveDid tell what the last such call did.
TraitPending(h, clazz, trigger) ==
  [handler |-> h, clazz |-> clazz, trigger |-> trigger, state |-> PENDING,
   analysis |-> "none", resolution |-> "none", diagnostics |-> <<>>,
   analyzeCalls |-> 0, resolveCalls |-> 0, analyzeDid |-> "none", resolveDid |-> "none",
   call |-> 0]

\* trait.toAnalyzed(analysis): the trait itself, now ANALYZED.
toAnalyzed(trait, analysis) ==
  [trait EXCEPT !.state = ANALYZED, !.analysis = analysis]

\* trait.toErrored(diagnostics): the trait itself, now ERRORED.
toErrored(trait, diags) ==
  [trait EXCEPT !.state = ERRORED, !.diagnostics = diags]

\* trait.toResolved(resolution): the trait itself, now RESOLVED.
toResolved(trait, resolution) ==
  [trait EXCEPT !.state = RESOLVED, !.resolution = resolution]

\* trait.toSkipped(): the trait itself, now SKIPPED.
toSkipped(trait) ==
  [trait EXCEPT !.state = SKIPPED]

\* A diagnostic a handler produced for trait t: thrown as a
\* FatalDiagnosticError (err.toDiagnostic()) or returned in result.diagnostics.
HandlerDiagnostic(code, clazz, t) ==
  [code |-> code, node |-> clazz, messageText |-> "reported by the handler", origin |-> t]

\* ------------------------------------------------------------ the program

\* The classes of the program and the source file of each.
Classes == {"A", "B"}
SourceFiles == {"a.ts", "b.ts"}

\* The named class declarations `visit` finds in a source file, in order.
ClassesIn(sf) == program.files[sf]

\* clazz.getSourceFile()
getSourceFile(clazz) == CHOOSE sf \in SourceFiles : clazz \in SeqToSet(ClassesIn(sf))

\* The files the compilation scopes speak of.
ScopeFiles == {"M", "C", "D", "P"}

\* What a handler's analyze does when called: returns an analysis, returns
\* neither analysis nor diagnostics, returns diagnostics, throws a
\* FatalDiagnosticError, or throws another error.
AnalyzeOutcomes == {"analysis", "nothing", "diagnostics", "fatal", "throw"}

\* The registry the lifecycle specification runs: a PRIMARY handler with every
\* optional method, a default-precedence handler with none, whose detect
\* reports no decorator as trigger, and a second PRIMARY handler.
MainHandlers ==
  << [DecoratorHandler(PRIMARY, TRUE, TRUE, TRUE, TRUE) EXCEPT !.trigger = "decorator"],
     [DecoratorHandler(SHARED, FALSE, TRUE, FALSE, FALSE) EXCEPT !.trigger = "null"],
     [DecoratorHandler(PRIMARY, TRUE, FALSE, FALSE, TRUE) EXCEPT !.trigger = "decorator"] >>

\* The aliases and targets re-export requests speak of.
Aliases == {"alias1"}
ReexportTargets == {"mod1#sym1", "mod2#sym2"}

\* A file without an entry in this.reexportMap.
NoReexports == [present |-> FALSE, byAlias |-> [a \in Aliases |-> "absent"]]

\* What a call leaves in lastOp when it did nothing of note.
NoOp ==
  [op |-> "none", arg |-> "none", threw |-> FALSE, error |-> "none", invoked |-> {},
   returnsNull |-> TRUE, result |-> <<>>, produced |-> <<>>, addFields |-> <<>>,
   decorators |-> <<>>,
   recorderRuns |-> 0, edgeCalls |-> <<>>, returned |-> <<>>]

OneScope ==
  [declaration |-> "C", ngModule |-> "M",
   directives |-> << [file |-> "C", isComponent |-> TRUE] >>, pipes |-> <<"P">>]

ProgInit ==
  /\ classes = [c \in Classes |-> NullRecord]
  /\ classOrder = <<>>
  /\ heap = <<>>
  /\ reexportMap = [f \in SourceFiles |-> NoReexports]
  /\ tasks = {}
  /\ joins = <<>>
  /\ scopes = <<OneScope>>
  /\ edges = {<<"D", "C">>}
  /\ nAnalyze = 0
  /\ nResolve = 0
  /\ lastOp = NoOp

\* ----------------------------------------------------------------- analyze

\* analyzeTrait whose catch rethrows every error, a FatalDiagnosticError too.
analyzeTraitRethrows(hp, t, outcome) ==
  IF hp[t].state # PENDING
    THEN [heap |-> hp, threw |-> TRUE, error |-> "Attempt to analyze trait", called |-> FALSE]
  ELSE
    LET hp1 == [hp EXCEPT ![t].analyzeCalls = @ + 1, ![t].analyzeDid = outcome]
        clazz == hp[t].clazz
    IN CASE outcome \in {"fatal", "throw"} ->
              [heap |-> hp1, threw |-> TRUE, error |-> "handler.analyze threw", called |-> TRUE]
         [] outcome = "diagnostics" ->
              [heap |-> [hp1 EXCEPT ![t] = toErrored(@, <<HandlerDiagnostic("ANALYZE_DIAG", clazz, t)>>)],
               threw |-> FALSE, error |-> "none", called |-> TRUE]
         [] outcome = "analysis" ->
              [heap |-> [hp1 EXCEPT ![t] = toAnalyzed(@, "analysis")],
               threw |-> FALSE, error |-> "none", called |-> TRUE]
         [] OTHER ->
              [heap |-> [hp1 EXCEPT ![t] = toSkipped(@)],
               threw |-> FALSE, error |-> "none", called |-> TRUE]

\* analyzeTrait whose catch turns every error into a diagnostic of the trait.
analyzeTraitCatchesAll(hp, t, outcome) ==
  IF hp[t].state # PENDING
    THEN [heap |-> hp, threw |-> TRUE, error |-> "Attempt to analyze trait", called |-> FALSE]
  ELSE
    LET hp1 == [hp EXCEPT ![t].analyzeCalls = @ + 1, ![t].analyzeDid = outcome]
        clazz == hp[t].clazz
    IN CASE outcome \in {"fatal", "throw"} ->
              [heap |-> [hp1 EXCEPT ![t] = toErrored(@, <<HandlerDiagnostic("ANALYZE_FATAL", clazz, t)>>)],
               threw |-> FALSE, error |-> "none", called |-> TRUE]
         [] outcome = "diagnostics" ->
              [heap |-> [hp1 EXCEPT ![t] = toErrored(@, <<HandlerDiagnostic("ANALYZE_DIAG", clazz, t)>>)],
               threw |-> FALSE, error |-> "none", called |-> TRUE]
         [] outcome = "analysis" ->
              [heap |-> [hp1 EXCEPT ![t] = toAnalyzed(@, "analysis")],
               threw |-> FALSE, error |-> "none", called |-> TRUE]
         [] OTHER ->
              [heap |-> [hp1 EXCEPT ![t] = toSkipped(@)],
               threw |-> FALSE, error |-> "none", called |-> TRUE]

\* analyzeTrait(clazz, trait) on the trait t of heap hp, when handler.analyze
\* behaves as `outcome`. called: whether handler.analyze was called.
analyzeTrait(hp, t, outcome) ==
  IF hp[t].state # PENDING
    THEN [heap |-> hp, threw |-> TRUE, error |-> "Attempt to analyze trait", called |-> FALSE]
  ELSE
    LET hp1 == [hp EXCEPT ![t].analyzeCalls = @ + 1, ![t].analyzeDid = outcome]
        clazz == hp[t].clazz
    IN CASE outcome = "fatal" ->
              [heap |-> [hp1 EXCEPT ![t] = toErrored(@, <<HandlerDiagnostic("ANALYZE_FATAL", clazz, t)>>)],
               threw |-> FALSE, error |-> "none", called |-> TRUE]
         [] outcome = "throw" ->
              [heap |-> hp1, threw |-> TRUE, error |-> "handler.analyze threw", called |-> TRUE]
         [] outcome = "diagnostics" ->
              [heap |-> [hp1 EXCEPT ![t] = toErrored(@, <<HandlerDiagnostic("ANALYZE_DIAG", clazz, t)>>)],
               threw |-> FALSE, error |-> "none", called |-> TRUE]
         [] outcome = "analysis" ->
              [heap |-> [hp1 EXCEPT ![t] = toAnalyzed(@, "analysis")],
               threw |-> FALSE, error |-> "none", called |-> TRUE]
         [] OTHER ->
              [heap |-> [hp1 EXCEPT ![t] = toSkipped(@)],
               threw |-> FALSE, error |-> "none", called |-> TRUE]

\* A Trait object nothing refers to any more: no record of this.classes holds
\* it and no pending promise will analyze it. The program cannot reach it, and
\* the heap keeps only its place.
Collected ==
  [handler |-> 0, clazz |-> "none", trigger |-> "none", state |-> "COLLECTED",
   analysis |-> "none", resolution |-> "none", diagnostics |-> <<>>,
   analyzeCalls |-> 0, resolveCalls |-> 0, analyzeDid |-> "none", resolveDid |-> "none",
   call |-> 0]

\* The traits the records of cls and the pending promises of tks refer to.
Reachable(cls, tks) ==
  UNION {SeqToSet(cls[c].traits) : c \in Classes} \cup {task.trait : task \in tks}

\* The heap after the unreachable traits are dropped.
Collect(hp, cls, tks) ==
  [t \in 1..Len(hp) |-> IF t \in Reachable(cls, tks) THEN hp[t] ELSE Collected]

\* The compiler's mutable state as the operators below pass it along, with
\* the handler methods invoked so far in the running call and whether it threw.
World ==
  [classes |-> classes, classOrder |-> classOrder, heap |-> heap, tasks |-> tasks,
   invoked |-> {}, threw |-> FALSE, error |-> "none", join |-> "none"]

\* The loop of analyzeClass that chains `analyze` to the preanalysis promise
\* and calls it at once as well.
RECURSIVE AnalyzeTraitsFromEager(_, _, _, _, _, _)
AnalyzeTraitsFromEager(w, ids, beh, k, queue, callId) ==
  IF k > Len(ids) THEN w
  ELSE
    LET t == ids[k]
        pre == queue /\ handlers[w.heap[t].handler].preanalyze
        inv == IF pre THEN w.invoked \cup {<<"preanalyze", t>>} ELSE w.invoked
        deferred == pre /\ beh[k] = "deferred"
        r == analyzeTrait(w.heap, t, IF deferred THEN "analysis" ELSE beh[k])
        inv2 == IF r.called THEN inv \cup {<<"analyze", t>>} ELSE inv
        tks == IF deferred THEN w.tasks \cup {[trait |-> t, call |-> callId]} ELSE w.tasks
    IN IF r.threw
         THEN [w EXCEPT !.heap = r.heap, !.invoked = inv2, !.tasks = tks, !.threw = TRUE,
                        !.error = r.error]
         ELSE AnalyzeTraitsFromEager([w EXCEPT !.heap = r.heap, !.invoked = inv2, !.tasks = tks],
                                     ids, beh, k + 1, queue, callId)

\* The loop `for (const trait of record.traits)` of analyzeClass from the k-th
\* trait on. queue: preanalyzeQueue !== null. beh[k]: "deferred" when
\* handler.preanalyze returned a promise, else what handler.analyze does.
RECURSIVE AnalyzeTraitsFrom(_, _, _, _, _, _)
AnalyzeTraitsFrom(w, ids, beh, k, queue, callId) ==
  IF k > Len(ids) THEN w
  ELSE
    LET t == ids[k]
        pre == queue /\ handlers[w.heap[t].handler].preanalyze
        inv == IF pre THEN w.invoked \cup {<<"preanalyze", t>>} ELSE w.invoked
    IN IF pre /\ beh[k] = "deferred"
         THEN AnalyzeTraitsFrom(
                [w EXCEPT !.invoked = inv,
                          !.tasks = @ \cup {[trait |-> t, call |-> callId]}],
                ids, beh, k + 1, queue, callId)
       ELSE
         LET r == analyzeTrait(w.heap, t, beh[k])
             inv2 == IF r.called THEN inv \cup {<<"analyze", t>>} ELSE inv
         IN IF r.threw
              THEN [w EXCEPT !.heap = r.heap, !.invoked = inv2, !.threw = TRUE, !.error = r.error]
              ELSE AnalyzeTraitsFrom([w EXCEPT !.heap = r.heap, !.invoked = inv2],
                                     ids, beh, k + 1, queue, callId)

\* analyzeClass(clazz, preanalyzeQueue). beh: how the handlers of the matched
\* traits behave in this call.
analyzeClass(w, clazz, queue, beh, callId) ==
  LET record == scanClassForTraits(handlers, clazz, program.decorators[clazz].eligible,
                                   program.decorators[clazz].detects).record
  IN IF record.isNull THEN w
     ELSE
       LET n == Len(record.traits)
           base == Len(w.heap)
           ids == [k \in 1..n |-> base + k]
           fresh == [k \in 1..n |->
                       [TraitPending(record.traits[k], clazz, handlers[record.traits[k]].trigger)
                          EXCEPT !.call = callId]]
           w1 == [w EXCEPT
                    !.heap = @ \o fresh,
                    !.classes[clazz] = [record EXCEPT !.traits = ids],
                    !.classOrder = IF w.classes[clazz].isNull THEN Append(@, clazz) ELSE @]
       IN AnalyzeTraitsFrom(w1, ids, beh, 1, queue, callId)

\* `visit(sf)`: analyzeClass for the named classes of sf, in order.
RECURSIVE VisitFrom(_, _, _, _, _)
VisitFrom(w, cs, queue, inputs, callId) ==
  IF cs = <<>> \/ w.threw THEN w
  ELSE VisitFrom(analyzeClass(w, Head(cs), queue, inputs[Head(cs)], callId),
                 Tail(cs), queue, inputs, callId)

\* analyze(sf, preanalyze): the world after it. join: "pending" when the call
\* returns Promise.all(promises), "none" when it returns nothing or throws.
analyze(w, sf, preanalyze, inputs, callId) ==
  LET w1 == VisitFrom(w, ClassesIn(sf), preanalyze, inputs, callId)
      promises == {task \in w1.tasks : task.call = callId}
  IN [w1 EXCEPT !.join = IF ~w1.threw /\ preanalyze /\ promises # {} THEN "pending" ELSE "none"]

\* A join that settles with the first of its promises to settle.
PromiseAllFirstSettles(join, rejected, othersPending) ==
  IF join # "pending" THEN join
  ELSE IF rejected THEN "rejected"
  ELSE "fulfilled"

\* Promise.all over the promises of one call, when one of them settles:
\* rejected as soon as one is rejected, fulfilled once all are fulfilled.
PromiseAll(join, rejected, othersPending) ==
  IF join # "pending" THEN join
  ELSE IF rejected THEN "rejected"
  ELSE IF othersPending THEN "pending"
  ELSE "fulfilled"

\* The traits matching gives class clazz, as handler positions.
MatchedTraits(clazz) ==
  scanClassForTraits(handlers, clazz, program.decorators[clazz].eligible,
                     program.decorators[clazz].detects).record.traits

\* How the handlers of the traits of clazz can behave in one analyze call:
\* per trait, what handler.analyze does, or "deferred" when the call is
\* analyzeAsync and handler.preanalyze exists and returns a promise.
Behaviours(clazz, preanalyze) ==
  LET ts == MatchedTraits(clazz)
  IN {b \in [1..Len(ts) -> AnalyzeOutcomes \cup {"deferred"}] :
        \A k \in 1..Len(ts) :
          b[k] = "deferred" => (preanalyze /\ handlers[ts[k]].preanalyze)}

\* The calls analyzeSync(sf) and analyzeAsync(sf).
AnalyzeCall(preanalyze) ==
  /\ nAnalyze < MaxAnalyzeCalls
  /\ \E sf \in SourceFiles :
       \E inputs \in [SeqToSet(ClassesIn(sf)) -> UNION {Behaviours(d, preanalyze) : d \in SeqToSet(ClassesIn(sf))}] :
         /\ \A c \in SeqToSet(ClassesIn(sf)) : inputs[c] \in Behaviours(c, preanalyze)
         /\ \E w \in {analyze(World, sf, preanalyze, inputs, nAnalyze + 1)} :
               /\ classes' = w.classes
               /\ classOrder' = w.classOrder
               /\ heap' = Collect(w.heap, w.classes, w.tasks)
               /\ tasks' = w.tasks
               /\ joins' = Append(joins, w.join)
               /\ nAnalyze' = nAnalyze + 1
               /\ lastOp' = [NoOp EXCEPT
                    !.op = IF preanalyze THEN "analyzeAsync" ELSE "analyzeSync",
                    !.arg = sf, !.threw = w.threw, !.error = w.error, !.invoked = w.invoked,
                    !.returnsNull = w.join = "none"]
  /\ UNCHANGED <<handlers, program, scanVars, reexportMap, scopes, edges, nResolve>>

analyzeSync == AnalyzeCall(FALSE)

analyzeAsync == AnalyzeCall(TRUE)

\* A preanalysis promise settles: rejected, or fulfilled, and then the chained
\* `analyze` runs analyzeTrait and its failure rejects the chained promise.
PreanalysisSettles ==
  \E task \in tasks :
    /\ \E settled \in {"rejected"} \cup AnalyzeOutcomes :
         \E r \in {IF settled = "rejected"
                    THEN [heap |-> heap, threw |-> TRUE, error |-> "preanalysis rejected",
                          called |-> FALSE]
                    ELSE analyzeTrait(heap, task.trait, settled)},
            tks \in {tasks \ {task}},
            t \in {task.trait} :
            /\ heap' = Collect(r.heap, classes, tks)
            /\ tasks' = tks
            /\ joins' = [joins EXCEPT ![task.call] =
                           PromiseAll(@, r.threw, \E o \in tks : o.call = task.call)]
            /\ lastOp' = [NoOp EXCEPT
                 !.op = "preanalysisSettles", !.arg = getSourceFile(heap[t].clazz),
                 !.threw = r.threw, !.error = r.error,
                 !.invoked = IF r.called THEN {<<"analyze", t>>} ELSE {}]
    /\ UNCHANGED <<handlers, program, scanVars, classes, classOrder, reexportMap, scopes, edges,
                   nAnalyze, nResolve>>

\* A program of classes A and B: its file layout and the handlers that detect
\* each class.
Program(inA, inB, detectsA, detectsB) ==
  [files |-> [sf \in SourceFiles |-> IF sf = "a.ts" THEN inA ELSE inB],
   decorators |-> [c \in Classes |->
                     [eligible |-> TRUE, detects |-> IF c = "A" THEN detectsA ELSE detectsB]]]

\* The programs the lifecycle specification compiles: class A with the
\* decorators of handlers 1 and 2 beside an undecorated class B in another
\* file; A with the decorator of handler 1 and B with that of handler 3 in one
\* file; A with the decorators of the two PRIMARY handlers 1 and 3, and B with
\* that of handler 2 in another file.
MainPrograms ==
  { Program(<<"A">>, <<"B">>, {1, 2}, {}),
    Program(<<"A", "B">>, <<>>, {1}, {3}),
    Program(<<"A">>, <<"B">>, {1, 3}, {2}) }

\* ------------------------------------------- the incremental driver's store

\* incrementalDriver.getFileDependencies(file): the files `file` depends on.
getFileDependencies(es, file) == {d \in ScopeFiles : <<d, file>> \in es}

\* incrementalDriver.trackFileDependency(dep, src): src now depends on dep.
trackFileDependency(st, dep, src) ==
  [edges |-> st.edges \cup {<<dep, src>>},
   calls |-> Append(st.calls, [many |-> FALSE, deps |-> {dep}, src |-> src])]

\* incrementalDriver.trackFileDependencies(deps, src).
trackFileDependencies(st, deps, src) ==
  [edges |-> st.edges \cup {<<d, src>> : d \in deps},
   calls |-> Append(st.calls, [many |-> TRUE, deps |-> deps, src |-> src])]

\* ----------------------------------------------- recordNgModuleScopeDependencies

\* The loop over scope.directives without `if (directive.isComponent)`: the
\* dependencies fan out to every directive.
RECURSIVE RecordDirectivesFromAllFanOut(_, _, _, _, _)
RecordDirectivesFromAllFanOut(st, directives, file, deps, k) ==
  IF k > Len(directives) THEN st
  ELSE
    LET dirSf == directives[k].file
        st1 == trackFileDependency(st, dirSf, file)
        st2 == trackFileDependencies(st1, deps, dirSf)
    IN RecordDirectivesFromAllFanOut(st2, directives, file, deps, k + 1)

\* `for (const directive of scope.directives)` from the k-th directive on.
RECURSIVE RecordDirectivesFrom(_, _, _, _, _)
RecordDirectivesFrom(st, directives, file, deps, k) ==
  IF k > Len(directives) THEN st
  ELSE
    LET dirSf == directives[k].file
        st1 == trackFileDependency(st, dirSf, file)
        st2 == IF directives[k].isComponent THEN trackFileDependencies(st1, deps, dirSf) ELSE st1
    IN RecordDirectivesFrom(st2, directives, file, deps, k + 1)

\* `for (const pipe of scope.pipes)` from the k-th pipe on.
RECURSIVE RecordPipesFrom(_, _, _, _)
RecordPipesFrom(st, pipes, file, k) ==
  IF k > Len(pipes) THEN st
  ELSE RecordPipesFrom(trackFileDependency(st, pipes[k], file), pipes, file, k + 1)

\* RecordScope that tracks a pipe's file as a dependency of the NgModule file.
RecordScopePipesToModule(st, scope) ==
  LET file == scope.declaration
      ngModuleFile == scope.ngModule
      deps == getFileDependencies(st.edges, file)
      st1 == trackFileDependencies(st, deps, ngModuleFile)
      st2 == trackFileDependency(st1, ngModuleFile, file)
      st3 == RecordDirectivesFrom(st2, scope.directives, file, deps, 1)
  IN RecordPipesFrom(st3, scope.pipes, ngModuleFile, 1)

\* The body of `for (const scope of ...getCompilationScopes())` for one scope.
RecordScope(st, scope) ==
  LET file == scope.declaration
      ngModuleFile == scope.ngModule
      deps == getFileDependencies(st.edges, file)
      st1 == trackFileDependencies(st, deps, ngModuleFile)
      st2 == trackFileDependency(st1, ngModuleFile, file)
      st3 == RecordDirectivesFrom(st2, scope.directives, file, deps, 1)
  IN RecordPipesFrom(st3, scope.pipes, file, 1)

RECURSIVE RecordScopesFrom(_, _, _)
RecordScopesFrom(st, scs, k) ==
  IF k > Len(scs) THEN st
  ELSE RecordScopesFrom(RecordScope(st, scs[k]), scs, k + 1)

\* recordNgModuleScopeDependencies(): the store after it and the calls made.
recordNgModuleScopeDependencies(es, scs) ==
  RecordScopesFrom([edges |-> es, calls |-> <<>>], scs, 1)

\* ----------------------------------------------------------------- resolve

\* What handler.resolve can do when called: return data, return nothing,
\* return diagnostics, each with or without re-export requests, throw a
\* FatalDiagnosticError, or throw another error.
ResolveOutcomes ==
  {[kind |-> k, reexports |-> r] :
     k \in {"data", "diagnostics"}, r \in {"undefined"} \cup ReexportTargets}
  \cup {[kind |-> k, reexports |-> "undefined"] : k \in {"nodata", "fatal", "throw"}}

\* The traits of all records, record by record in the key order of
\* this.classes, trait by trait.
RECURSIVE TraitOrder(_, _)
TraitOrder(cls, order) ==
  IF order = <<>> THEN <<>>
  ELSE cls[Head(order)].traits \o TraitOrder(cls, Tail(order))

\* `fileReexports.set(reexport.asAlias, [reexport.fromModule, reexport.symbolName])`
\* for the requests of a result: one request for alias1 to the given target.
SetReexports(rm, fileName, target) ==
  [rm EXCEPT ![fileName] = [present |-> TRUE,
                            byAlias |-> [rm[fileName].byAlias EXCEPT !["alias1"] = target]]]

\* ResolveAnalyzed with the re-export requests handled in the branch of a
\* result without diagnostics only.
ResolveAnalyzedReexportsOnSuccess(r, t, out) ==
  LET trait == r.heap[t]
      handler == handlers[trait.handler]
      clazz == trait.clazz
  IN IF ~handler.resolve
       THEN [r EXCEPT !.heap[t] = toResolved(@, "null")]
     ELSE
       LET r1 == [r EXCEPT !.heap[t].resolveCalls = @ + 1,
                           !.heap[t].resolveDid = out.kind,
                           !.invoked = @ \cup {<<"resolve", t>>},
                           !.returned = Append(@, [trait |-> t, kind |-> out.kind,
                                                   reexports |-> out.reexports])]
       IN CASE out.kind = "fatal" ->
                 [r1 EXCEPT !.heap[t] =
                    toErrored(@, <<HandlerDiagnostic("RESOLVE_FATAL", clazz, t)>>)]
            [] out.kind = "throw" ->
                 [r1 EXCEPT !.threw = TRUE, !.error = "handler.resolve threw"]
            [] out.kind = "diagnostics" ->
                 [r1 EXCEPT !.heap[t] =
                    toErrored(@, <<HandlerDiagnostic("RESOLVE_DIAG", clazz, t)>>)]
            [] OTHER ->
                 LET r2 == IF out.kind = "data"
                             THEN [r1 EXCEPT !.heap[t] = toResolved(@, "data")]
                           ELSE [r1 EXCEPT !.heap[t] = toResolved(@, "null")]
                 IN IF out.reexports # "undefined"
                      THEN [r2 EXCEPT !.reexportMap =
                              SetReexports(@, getSourceFile(clazz), out.reexports)]
                      ELSE r2

\* resolve() on a trait it found ANALYZED: RESOLVED at once without
\* handler.resolve, else by what handler.resolve does (out).
ResolveAnalyzed(r, t, out) ==
  LET trait == r.heap[t]
      handler == handlers[trait.handler]
      clazz == trait.clazz
  IN IF ~handler.resolve
       THEN [r EXCEPT !.heap[t] = toResolved(@, "null")]
     ELSE
       LET r1 == [r EXCEPT !.heap[t].resolveCalls = @ + 1,
                           !.heap[t].resolveDid = out.kind,
                           !.invoked = @ \cup {<<"resolve", t>>},
                           !.returned = Append(@, [trait |-> t, kind |-> out.kind,
                                                   reexports |-> out.reexports])]
       IN CASE out.kind = "fatal" ->
                 [r1 EXCEPT !.heap[t] =
                    toErrored(@, <<HandlerDiagnostic("RESOLVE_FATAL", clazz, t)>>)]
            [] out.kind = "throw" ->
                 [r1 EXCEPT !.threw = TRUE, !.error = "handler.resolve threw"]
            [] OTHER ->
                 LET r2 == IF out.kind = "diagnostics"
                             THEN [r1 EXCEPT !.heap[t] =
                                     toErrored(@, <<HandlerDiagnostic("RESOLVE_DIAG", clazz, t)>>)]
                           ELSE IF out.kind = "data"
                             THEN [r1 EXCEPT !.heap[t] = toResolved(@, "data")]
                           ELSE [r1 EXCEPT !.heap[t] = toResolved(@, "null")]
                 IN IF out.reexports # "undefined"
                      THEN [r2 EXCEPT !.reexportMap =
                              SetReexports(@, getSourceFile(clazz), out.reexports)]
                      ELSE r2

\* ResolveTrait without `case TraitState.ERRORED: continue`: an ERRORED trait
\* goes on to handler.resolve like an ANALYZED one.
ResolveTraitResolvesErrored(r, t, out) ==
  LET trait == r.heap[t]
  IN CASE trait.state = SKIPPED -> r
       [] trait.state = PENDING ->
            [r EXCEPT !.threw = TRUE, !.error = "Resolving a trait that hasn't been analyzed"]
       [] trait.state = RESOLVED ->
            [r EXCEPT !.threw = TRUE, !.error = "Resolving an already resolved trait"]
       [] OTHER -> ResolveAnalyzed(r, t, out)

\* ResolveTrait with PENDING among the states the switch skips.
ResolveTraitSkipsPending(r, t, out) ==
  LET trait == r.heap[t]
  IN CASE trait.state \in {SKIPPED, ERRORED, PENDING} -> r
       [] trait.state = RESOLVED ->
            [r EXCEPT !.threw = TRUE, !.error = "Resolving an already resolved trait"]
       [] OTHER -> ResolveAnalyzed(r, t, out)

\* ResolveTrait with RESOLVED among the states the switch skips.
ResolveTraitSkipsResolved(r, t, out) ==
  LET trait == r.heap[t]
  IN CASE trait.state \in {SKIPPED, ERRORED, RESOLVED} -> r
       [] trait.state = PENDING ->
            [r EXCEPT !.threw = TRUE, !.error = "Resolving a trait that hasn't been analyzed"]
       [] OTHER -> ResolveAnalyzed(r, t, out)

\* ResolveTrait without the `handler.resolve === undefined` branch: an
\* ANALYZED trait whose handler cannot resolve is left as it is.
ResolveTraitLeavesUnresolvable(r, t, out) ==
  LET trait == r.heap[t]
  IN CASE trait.state \in {SKIPPED, ERRORED} -> r
       [] trait.state = PENDING ->
            [r EXCEPT !.threw = TRUE, !.error = "Resolving a trait that hasn't been analyzed"]
       [] trait.state = RESOLVED ->
            [r EXCEPT !.threw = TRUE, !.error = "Resolving an already resolved trait"]
       [] OTHER -> IF handlers[trait.handler].resolve THEN ResolveAnalyzed(r, t, out) ELSE r

\* The body of `for (let trait of record.traits)` of resolve() for trait t,
\* when handler.resolve behaves as out. r: the heap, the re-export table, the
\* handler methods invoked, and whether an error was thrown.
ResolveTrait(r, t, out) ==
  LET trait == r.heap[t]
  IN CASE trait.state \in {SKIPPED, ERRORED} -> r
       [] trait.state = PENDING ->
            [r EXCEPT !.threw = TRUE, !.error = "Resolving a trait that hasn't been analyzed"]
       [] trait.state = RESOLVED ->
            [r EXCEPT !.threw = TRUE, !.error = "Resolving an already resolved trait"]
       [] OTHER -> ResolveAnalyzed(r, t, out)

\* The two loops of resolve() from the k-th trait of the order on; a thrown
\* error ends them.
RECURSIVE ResolveFrom(_, _, _, _)
ResolveFrom(r, ids, outs, k) ==
  IF k > Len(ids) \/ r.threw THEN r
  ELSE ResolveFrom(ResolveTrait(r, ids[k], outs[ids[k]]), ids, outs, k + 1)

\* resolve() that runs recordNgModuleScopeDependencies() in a finally block,
\* after a thrown error too.
resolveAlwaysRecords(hp, cls, order, rm, es, scs, outs) ==
  LET r == ResolveFrom([heap |-> hp, reexportMap |-> rm, invoked |-> {}, threw |-> FALSE,
                        error |-> "none", returned |-> <<>>],
                       TraitOrder(cls, order), outs, 1)
      rec == recordNgModuleScopeDependencies(es, scs)
  IN [heap |-> r.heap, reexportMap |-> r.reexportMap, invoked |-> r.invoked,
      threw |-> r.threw, error |-> r.error, edges |-> rec.edges, edgeCalls |-> rec.calls,
      recorderRuns |-> 1, returned |-> r.returned]

\* resolve(): the loops, then recordNgModuleScopeDependencies() unless an
\* error was thrown on the way.
resolve(hp, cls, order, rm, es, scs, outs) ==
  LET r == ResolveFrom([heap |-> hp, reexportMap |-> rm, invoked |-> {}, threw |-> FALSE,
                        error |-> "none", returned |-> <<>>],
                       TraitOrder(cls, order), outs, 1)
      rec == IF r.threw THEN [edges |-> es, calls |-> <<>>]
             ELSE recordNgModuleScopeDependencies(es, scs)
  IN [heap |-> r.heap, reexportMap |-> r.reexportMap, invoked |-> r.invoked,
      threw |-> r.threw, error |-> r.error, edges |-> rec.edges, edgeCalls |-> rec.calls,
      recorderRuns |-> IF r.threw THEN 0 ELSE 1, returned |-> r.returned]

\* The traits of the records whose handler.resolve the pass may call.
Resolvable ==
  {t \in SeqToSet(TraitOrder(classes, classOrder)) :
     heap[t].state = ANALYZED /\ handlers[heap[t].handler].resolve}

\* The call resolve().
resolveCall ==
  /\ nResolve < MaxResolveCalls
  /\ \E outs \in [Resolvable -> ResolveOutcomes] :
       \E r \in {resolve(heap, classes, classOrder, reexportMap, edges, scopes,
                        [t \in 1..Len(heap) |->
                           IF t \in Resolvable THEN outs[t]
                           ELSE [kind |-> "nodata", reexports |-> "undefined"]])} :
          /\ heap' = r.heap
          /\ reexportMap' = r.reexportMap
          /\ edges' = r.edges
          /\ nResolve' = nResolve + 1
          /\ lastOp' = [NoOp EXCEPT
               !.op = "resolve", !.threw = r.threw, !.error = r.error, !.invoked = r.invoked,
               !.recorderRuns = r.recorderRuns, !.edgeCalls = r.edgeCalls,
               !.returned = r.returned]
  /\ UNCHANGED <<handlers, program, scanVars, classes, classOrder, tasks, joins, scopes, nAnalyze>>

\* ------------------------------------------------------------- diagnostics

\* `get diagnostics()`: per record in key order, its metaDiagnostics, then the
\* diagnostics of its ERRORED traits.
RECURSIVE TraitDiagnostics(_, _)
TraitDiagnostics(hp, ids) ==
  IF ids = <<>> THEN <<>>
  ELSE (IF hp[Head(ids)].state = ERRORED THEN hp[Head(ids)].diagnostics ELSE <<>>)
         \o TraitDiagnostics(hp, Tail(ids))

\* The diagnostics getter without the metaDiagnostics of the records.
RECURSIVE DiagnosticsFromTraitsOnly(_, _, _)
DiagnosticsFromTraitsOnly(cls, order, hp) ==
  IF order = <<>> THEN <<>>
  ELSE TraitDiagnostics(hp, cls[Head(order)].traits)
         \o DiagnosticsFromTraitsOnly(cls, Tail(order), hp)

RECURSIVE DiagnosticsFrom(_, _, _)
DiagnosticsFrom(cls, order, hp) ==
  IF order = <<>> THEN <<>>
  ELSE (IF ~cls[Head(order)].metaDiagnostics.isNull
          THEN cls[Head(order)].metaDiagnostics.list ELSE <<>>)
         \o TraitDiagnostics(hp, cls[Head(order)].traits)
         \o DiagnosticsFrom(cls, Tail(order), hp)

diagnostics == DiagnosticsFrom(classes, classOrder, heap)

\* ------------------------------------------- typeCheck, index, compile, decoratorsFor

\* The declarations compile() and decoratorsFor() are asked about: the classes,
\* "A2" a transformed copy of class A, "f" a declaration that is no class, and
\* "h" a node that is no class declaration but whose original node is class A.
Nodes == Classes \cup {"A2", "f", "h"}

\* ts.getOriginalNode(node)
getOriginalNode(node) == IF node \in {"A2", "h"} THEN "A" ELSE node

isNamedClassDeclaration(node) == node \in Classes \cup {"A2"}

\* this.classes.has(clazz)
HasRecord(cls, clazz) == clazz \in Classes /\ ~cls[clazz].isNull

\* typeCheck(ctx): the handler.typeCheck calls it makes.
typeCheck(cls, order, hp) ==
  {<<"typeCheck", t>> : t \in {u \in SeqToSet(TraitOrder(cls, order)) :
       hp[u].state = RESOLVED /\ handlers[hp[u].handler].typeCheck}}

\* index(ctx): the handler.index calls it makes.
index(cls, order, hp) ==
  {<<"index", t>> : t \in {u \in SeqToSet(TraitOrder(cls, order)) :
       hp[u].state = RESOLVED /\ handlers[hp[u].handler].index}}

\* What handler.compile returns: one CompileResult or an array of them, given
\* by the names of the results.
CompileOutputs ==
  { [isArray |-> FALSE, names |-> <<"x">>],
    [isArray |-> TRUE, names |-> <<>>],
    [isArray |-> TRUE, names |-> <<"x", "y">>],
    [isArray |-> TRUE, names |-> <<"y", "y">>] }

\* The CompileResult objects of an output of trait t.
CompileResults(t, out) ==
  [i \in 1..Len(out.names) |-> [name |-> out.names[i], trait |-> t, pos |-> i]]

\* The dedupe of compile() without its `!res.some(...)` test: every result is
\* pushed.
RECURSIVE PushAll(_, _, _)
PushAll(res, rs, k) ==
  IF k > Len(rs) THEN res ELSE PushAll(Append(res, rs[k]), rs, k + 1)

\* `if (!res.some(r => r.name === result.name)) res.push(result)` for the
\* results rs from the k-th on.
RECURSIVE PushNew(_, _, _)
PushNew(res, rs, k) ==
  IF k > Len(rs) THEN res
  ELSE PushNew(IF \E i \in 1..Len(res) : res[i].name = rs[k].name
                 THEN res ELSE Append(res, rs[k]),
               rs, k + 1)

\* The loop of compile() over record.traits from the k-th trait on. c: the
\* results kept (res), every result produced, the handler.compile calls made.
RECURSIVE CompileFrom(_, _, _, _, _)
CompileFrom(c, hp, ids, outs, k) ==
  IF k > Len(ids) THEN c
  ELSE LET t == ids[k]
       IN IF hp[t].state # RESOLVED
            THEN CompileFrom(c, hp, ids, outs, k + 1)
            ELSE CompileFrom(
                   [res |-> PushNew(c.res, CompileResults(t, outs[t]), 1),
                    produced |-> c.produced \o CompileResults(t, outs[t]),
                    invoked |-> c.invoked \cup {<<"compile", t>>}],
                   hp, ids, outs, k + 1)

\* compile() that registers the fields only when there are some.
compileSkipsEmptyAddFields(cls, hp, clazz, outs) ==
  LET original == getOriginalNode(clazz)
  IN IF ~isNamedClassDeclaration(clazz) \/ ~isNamedClassDeclaration(original)
          \/ ~HasRecord(cls, original)
       THEN [returnsNull |-> TRUE, result |-> <<>>, produced |-> <<>>, invoked |-> {},
             addFields |-> <<>>]
     ELSE
       LET c == CompileFrom([res |-> <<>>, produced |-> <<>>, invoked |-> {}],
                            hp, cls[original].traits, outs, 1)
       IN [returnsNull |-> ~(Len(c.res) > 0), result |-> c.res, produced |-> c.produced,
           invoked |-> c.invoked,
           addFields |-> IF Len(c.res) > 0
                           THEN <<[node |-> original, fields |-> c.res]>> ELSE <<>>]

\* compile(clazz, constantPool), when handler.compile returns outs[t] for trait
\* t. addFields: the addFields calls on the declaration-file transform.
compile(cls, hp, clazz, outs) ==
  LET original == getOriginalNode(clazz)
  IN IF ~isNamedClassDeclaration(clazz) \/ ~isNamedClassDeclaration(original)
          \/ ~HasRecord(cls, original)
       THEN [returnsNull |-> TRUE, result |-> <<>>, produced |-> <<>>, invoked |-> {},
             addFields |-> <<>>]
     ELSE
       LET c == CompileFrom([res |-> <<>>, produced |-> <<>>, invoked |-> {}],
                            hp, cls[original].traits, outs, 1)
       IN [returnsNull |-> ~(Len(c.res) > 0), result |-> c.res, produced |-> c.produced,
           invoked |-> c.invoked,
           addFields |-> <<[node |-> original, fields |-> c.res]>>]

\* The loop of decoratorsFor() without
\* `if (trait.state !== TraitState.RESOLVED) continue`.
RECURSIVE DecoratorsFromAnyState(_, _, _, _)
DecoratorsFromAnyState(decorators, hp, ids, k) ==
  IF k > Len(ids) THEN decorators
  ELSE LET trait == hp[ids[k]]
       IN IF trait.trigger = "decorator"
            THEN DecoratorsFromAnyState(
                   Append(decorators, [trigger |-> trait.trigger, trait |-> ids[k]]),
                   hp, ids, k + 1)
          ELSE DecoratorsFromAnyState(decorators, hp, ids, k + 1)

\* The loop of decoratorsFor() over record.traits from the k-th trait on.
RECURSIVE DecoratorsFrom(_, _, _, _)
DecoratorsFrom(decorators, hp, ids, k) ==
  IF k > Len(ids) THEN decorators
  ELSE LET trait == hp[ids[k]]
       IN IF trait.state # RESOLVED
            THEN DecoratorsFrom(decorators, hp, ids, k + 1)
          ELSE IF trait.trigger = "decorator"
            THEN DecoratorsFrom(Append(decorators, [trigger |-> trait.trigger, trait |-> ids[k]]),
                                hp, ids, k + 1)
          ELSE DecoratorsFrom(decorators, hp, ids, k + 1)

\* decoratorsFor(node)
decoratorsFor(cls, hp, node) ==
  LET original == getOriginalNode(node)
  IN IF ~isNamedClassDeclaration(original) \/ ~HasRecord(cls, original)
       THEN <<>>
       ELSE DecoratorsFrom(<<>>, hp, cls[original].traits, 1)

ReadOps == {"typeCheck", "index", "compile", "decoratorsFor"}

typeCheckCall ==
  /\ lastOp' = [NoOp EXCEPT !.op = "typeCheck", !.invoked = typeCheck(classes, classOrder, heap)]
  /\ UNCHANGED <<handlers, program, scanVars, classes, classOrder, heap, reexportMap, tasks,
                 joins, scopes, edges, nAnalyze, nResolve>>

indexCall ==
  /\ lastOp' = [NoOp EXCEPT !.op = "index", !.invoked = index(classes, classOrder, heap)]
  /\ UNCHANGED <<handlers, program, scanVars, classes, classOrder, heap, reexportMap, tasks,
                 joins, scopes, edges, nAnalyze, nResolve>>

\* The traits of the record compile(clazz) reads that are RESOLVED.
Compilable(clazz) ==
  IF HasRecord(classes, getOriginalNode(clazz))
    THEN {t \in SeqToSet(classes[getOriginalNode(clazz)].traits) : heap[t].state = RESOLVED}
    ELSE {}

compileCall ==
  /\ \E clazz \in Nodes : \E outs \in [Compilable(clazz) -> CompileOutputs] :
       \E r \in {compile(classes, heap, clazz,
                         [t \in 1..Len(heap) |->
                            IF t \in Compilable(clazz) THEN outs[t]
                            ELSE [isArray |-> FALSE, names |-> <<"x">>]])} :
          lastOp' = [NoOp EXCEPT
               !.op = "compile", !.arg = clazz, !.invoked = r.invoked,
               !.returnsNull = r.returnsNull, !.result = r.result,
               !.produced = r.produced, !.addFields = r.addFields]
  /\ UNCHANGED <<handlers, program, scanVars, classes, classOrder, heap, reexportMap, tasks,
                 joins, scopes, edges, nAnalyze, nResolve>>

decoratorsForCall ==
  /\ \E node \in Nodes :
       lastOp' = [NoOp EXCEPT !.op = "decoratorsFor", !.arg = node,
                              !.decorators = decoratorsFor(classes, heap, node)]
  /\ UNCHANGED <<handlers, program, scanVars, classes, classOrder, heap, reexportMap, tasks,
                 joins, scopes, edges, nAnalyze, nResolve>>

\* The synchronous pipeline with its reads: analyzeSync per file, resolve(),
\* then typeCheck, index, compile and decoratorsFor, in any order and number.
ReadPrograms ==
  { Program(<<"A">>, <<"B">>, {1, 2}, {}),
    Program(<<"A", "B">>, <<>>, {1}, {3}) }

ReadInit ==
  /\ handlers = MainHandlers
  /\ program \in ReadPrograms
  /\ scanInput = [clazz |-> "A", eligible |-> FALSE, detects |-> {}]
  /\ scanIdx = 1
  /\ scanRecord = NullRecord
  /\ scanCalls = <<>>
  /\ scanPc = "idle"
  /\ ProgInit

ReadNext ==
  analyzeSync \/ resolveCall \/ typeCheckCall \/ indexCall \/ compileCall \/ decoratorsForCall

SpecRead == ReadInit /\ [][ReadNext]_vars

Init ==
  /\ handlers = MainHandlers
  /\ program \in MainPrograms
  /\ scanInput = [clazz |-> "A", eligible |-> FALSE, detects |-> {}]
  /\ scanIdx = 1
  /\ scanRecord = NullRecord
  /\ scanCalls = <<>>
  /\ scanPc = "idle"
  /\ ProgInit

Next == analyzeSync \/ analyzeAsync \/ PreanalysisSettles \/ resolveCall

Spec == Init /\ [][Next]_vars

\* ------------------------------------------------- matching, handler by handler

\* Registries of n handlers with every mix of precedences.
RegistriesOfLen(n) ==
  {[i \in 1..n |-> DecoratorHandler(p[i], FALSE, FALSE, FALSE, FALSE)] :
     p \in [1..n -> HandlerPrecedence]}

Registries == UNION {RegistriesOfLen(n) : n \in 1..MaxHandlers}

MatchInit ==
  /\ handlers \in Registries
  /\ \E e \in BOOLEAN, d \in SUBSET (1..MaxHandlers) :
       /\ d \subseteq 1..Len(handlers)
       /\ scanInput = [clazz |-> "A", eligible |-> e, detects |-> d]
  /\ program = [files |-> [sf \in SourceFiles |-> IF sf = "a.ts" THEN <<"A", "B">> ELSE <<>>],
                decorators |-> [c \in Classes |-> [eligible |-> scanInput.eligible,
                                                   detects |-> scanInput.detects]]]
  /\ scanIdx = 1
  /\ scanRecord = NullRecord
  /\ scanCalls = <<>>
  /\ scanPc = "entry"
  /\ ProgInit

\* `if (!this.compileNonExportedClasses && !isExported(clazz)) return null;`
MatchEnter ==
  /\ scanPc = "entry"
  /\ scanPc' = IF scanInput.eligible THEN "loop" ELSE "returned"
  /\ UNCHANGED <<handlers, program, scanInput, scanIdx, scanRecord, scanCalls, progVars>>

\* One iteration of the loop over the registry.
MatchHandler ==
  /\ scanPc = "loop"
  /\ scanIdx <= Len(handlers)
  /\ LET step == ScanHandler(handlers, scanInput.clazz, scanRecord, scanIdx,
                             scanIdx \in scanInput.detects)
     IN /\ scanRecord' = step.record
        /\ scanCalls' = Append(scanCalls, scanIdx)
        /\ scanIdx' = scanIdx + 1
        /\ scanPc' = IF step.returned THEN "returned" ELSE "loop"
  /\ UNCHANGED <<handlers, program, scanInput, progVars>>

\* `return record;` after the loop.
MatchReturn ==
  /\ scanPc = "loop"
  /\ scanIdx > Len(handlers)
  /\ scanPc' = "returned"
  /\ UNCHANGED <<handlers, program, scanInput, scanIdx, scanRecord, scanCalls, progVars>>

MatchNext == MatchEnter \/ MatchHandler \/ MatchReturn

SpecMatch == MatchInit /\ [][MatchNext]_vars

\* ------------------------------------------------ the dependency recorder alone

\* The compilation scopes the dependency specification draws from: the
\* declaration in file C or in the NgModule's file M, with no directive, a
\* component or a plain directive in C, or a component in C and a directive in
\* D, and with or without a pipe in P.
DepScopes ==
  { [declaration |-> d, ngModule |-> "M", directives |-> ds, pipes |-> ps] :
      d \in {"C", "M"},
      ds \in { <<>>,
               << [file |-> "C", isComponent |-> TRUE] >>,
               << [file |-> "C", isComponent |-> FALSE] >>,
               << [file |-> "C", isComponent |-> TRUE], [file |-> "D", isComponent |-> FALSE] >> },
      ps \in { <<>>, <<"P">> } }

\* The dependencies the store can hold before resolve().
DepEdges == { <<"D", "C">>, <<"C", "C">>, <<"D", "M">> }

ScopeLists == UNION { [1..n -> DepScopes] : n \in 1..MaxScopes }

DepsInit ==
  /\ handlers = MainHandlers
  /\ program = Program(<<"A">>, <<"B">>, {}, {})
  /\ scanInput = [clazz |-> "A", eligible |-> FALSE, detects |-> {}]
  /\ scanIdx = 1
  /\ scanRecord = NullRecord
  /\ scanCalls = <<>>
  /\ scanPc = "idle"
  /\ classes = [c \in Classes |-> NullRecord]
  /\ classOrder = <<>>
  /\ heap = <<>>
  /\ reexportMap = [f \in SourceFiles |-> NoReexports]
  /\ tasks = {}
  /\ joins = <<>>
  /\ scopes \in ScopeLists
  /\ edges \in SUBSET DepEdges
  /\ nAnalyze = 0
  /\ nResolve = 0
  /\ lastOp = NoOp

DepsNext == resolveCall

SpecDeps == DepsInit /\ [][DepsNext]_vars

\* The edges (dependency, dependent) one scope adds to a store holding es.
ScopeEdges(scope, es) ==
  LET file == scope.declaration
      deps == {d \in ScopeFiles : <<d, file>> \in es}
      components == {scope.directives[i].file : i \in
                       {j \in 1..Len(scope.directives) : scope.directives[j].isComponent}}
  IN {<<d, scope.ngModule>> : d \in deps}
       \cup {<<scope.ngModule, file>>}
       \cup {<<scope.directives[i].file, file>> : i \in 1..Len(scope.directives)}
       \cup {<<d, c>> : d \in deps, c \in components}
       \cup {<<scope.pipes[i], file>> : i \in 1..Len(scope.pipes)}

\* A scope of the scenario: declaration in `file`, NgModule in M, a component
\* in C among its directives.
ScenarioScope(scope) ==
  /\ scope.ngModule = "M"
  /\ \E i \in 1..Len(scope.directives) :
       scope.directives[i].file = "C" /\ scope.directives[i].isComponent

\* C9 as stated: with a component in C in a scope of the NgModule in M, and C
\* depending on D, the recorder leaves D->M, C->M and M->C in the store, and
\* P->M for a pipe in P.
C9_ScenarioEdges ==
  [][(nResolve' = nResolve + 1 /\ ~lastOp'.threw) =>
       \A k \in 1..Len(scopes) :
         (ScenarioScope(scopes[k]) /\ <<"D", "C">> \in edges) =>
           /\ {<<"D", "M">>, <<"C", "M">>, <<"M", "C">>} \subseteq edges'
           /\ scopes[k].pipes # <<>> => <<"P", "M">> \in edges']_vars

\* C9 amended: for every scope, with `file` the declaration's file and deps
\* the files `file` depended on before, the recorder leaves in the store
\* d->NgModule file for every d in deps, NgModule file->file, directive
\* file->file for every directive, d->component file for every d in deps and
\* every component, and pipe file->file for every pipe; with one scope these
\* are all the edges it adds. So for a declaration in C with NgModule in M,
\* C depending on D, itself the component in scope, and a pipe in P, it adds
\* D->M, M->C, C->C, D->C and P->C: C->M only if C depended on itself before,
\* P->M only if C depended on P before, and the pipe's file gets no edge.
C9_RecordedEdges ==
  [][(nResolve' = nResolve + 1 /\ ~lastOp'.threw) =>
       /\ \A k \in 1..Len(scopes) : ScopeEdges(scopes[k], edges) \subseteq edges'
       /\ Len(scopes) = 1 => edges' = edges \cup ScopeEdges(scopes[1], edges)
       /\ (Len(scopes) = 1 /\ scopes[1].declaration = "C") =>
            /\ <<"C", "M">> \in edges' => <<"C", "C">> \in edges
            /\ <<"P", "M">> \in edges' => <<"P", "C">> \in edges
            /\ \A d \in ScopeFiles : <<d, "P">> \notin edges']_vars

\* C9 witness: resolve() ran the recorder on the one scope with declaration
\* and component in C, NgModule in M and a pipe in P, C depending on D; the
\* store holds D->M, M->C, D->C and P->C, and neither C->M nor P->M.
C9_Witness ==
  /\ lastOp.op = "resolve"
  /\ lastOp.recorderRuns = 1
  /\ scopes = <<OneScope>>
  /\ {<<"D", "C">>, <<"D", "M">>, <<"M", "C">>, <<"P", "C">>} \subseteq edges
  /\ <<"C", "M">> \notin edges
  /\ <<"P", "M">> \notin edges

\* The traits the records of this.classes hold.
RecordTraits == SeqToSet(TraitOrder(classes, classOrder))

\* One trackFileDependency(dep, src) call and one
\* trackFileDependencies(deps, src) call, as the store logs them.
OneCall(dep, src) == [many |-> FALSE, deps |-> {dep}, src |-> src]

ManyCall(deps, src) == [many |-> TRUE, deps |-> deps, src |-> src]

\* The calls due for the directives from the k-th on, D being the dependencies
\* read for the scope.
RECURSIVE DirectiveCalls(_, _, _, _)
DirectiveCalls(directives, file, D, k) ==
  IF k > Len(directives) THEN <<>>
  ELSE <<OneCall(directives[k].file, file)>>
         \o (IF directives[k].isComponent THEN <<ManyCall(D, directives[k].file)>> ELSE <<>>)
         \o DirectiveCalls(directives, file, D, k + 1)

\* The calls due for one scope when the store holds es as the scope is reached.
ScopeCalls(scope, es) ==
  LET file == scope.declaration
      D == {d \in ScopeFiles : <<d, file>> \in es}
  IN <<ManyCall(D, scope.ngModule), OneCall(scope.ngModule, file)>>
       \o DirectiveCalls(scope.directives, file, D, 1)
       \o [i \in 1..Len(scope.pipes) |-> OneCall(scope.pipes[i], file)]

\* The calls due for the scopes from the k-th on.
RECURSIVE ScopesCalls(_, _, _)
ScopesCalls(scs, es, k) ==
  IF k > Len(scs) THEN <<>>
  ELSE ScopeCalls(scs[k], es) \o ScopesCalls(scs, es \cup ScopeEdges(scs[k], es), k + 1)

\* C14: for every scope, with D the dependencies of the declaration's file as
\* the store holds them when the scope is reached, the recorder makes exactly
\* these calls, in this order: D to the NgModule's file; the NgModule's file
\* to the declaration's file; for each directive its file to the declaration's
\* file and, if it is a component, D to its file; for each pipe its file to
\* the declaration's file. No other call is made, so pipes and directives
\* that are no components get nothing from D.
C14_RecorderCalls ==
  [][(nResolve' = nResolve + 1 /\ ~lastOp'.threw) =>
       /\ lastOp'.edgeCalls = ScopesCalls(scopes, edges, 1)
       /\ edges' = edges \cup UNION {{<<d, lastOp'.edgeCalls[i].src>> : d \in lastOp'.edgeCalls[i].deps} :
                                      i \in 1..Len(lastOp'.edgeCalls)}]_vars

\* C14 witness: the recorder ran on the one scope with a component in C, a
\* plain directive in D and a pipe in P, the declaration's file C depending on
\* D: six calls, D fanning out to M and to the component's file only.
C14_Witness ==
  /\ lastOp.op = "resolve"
  /\ nResolve = 1
  /\ Len(scopes) = 1
  /\ scopes[1].declaration = "C"
  /\ Len(scopes[1].directives) = 2
  /\ scopes[1].pipes = <<"P">>
  /\ lastOp.edgeCalls =
       << ManyCall({"D"}, "M"), OneCall("M", "C"), OneCall("C", "C"), ManyCall({"D"}, "C"),
          OneCall("D", "C"), OneCall("P", "C") >>

\* C15 as stated: a resolve() call runs the recorder once if it returns and
\* not at all if it throws, and a resolve() call that follows one that ran the
\* recorder does not run it again.
C15_RecorderRunsOnce ==
  /\ [](lastOp.op = "resolve" => lastOp.recorderRuns = IF lastOp.threw THEN 0 ELSE 1)
  /\ [][(lastOp.op = "resolve" /\ lastOp.recorderRuns = 1 /\ nResolve' = nResolve + 1)
          => lastOp'.recorderRuns = 0]_vars

\* C15 amended: in every resolve() call the recorder runs once if the call
\* returns, after the last trait was processed, so that every trait of every
\* record is then RESOLVED, SKIPPED or ERRORED, and not at all if the call
\* throws: no call reaches the store and its edges stay as they were. The
\* recorder runs once per resolve() call that returns, a second call included.
C15_RecorderRunsOncePerReturn ==
  [][nResolve' = nResolve + 1 =>
       IF lastOp'.threw
         THEN /\ lastOp'.recorderRuns = 0
              /\ lastOp'.edgeCalls = <<>>
              /\ edges' = edges
         ELSE /\ lastOp'.recorderRuns = 1
              /\ lastOp'.edgeCalls = ScopesCalls(scopes, edges, 1)
              /\ \A t \in RecordTraits : heap'[t].state \in {RESOLVED, SKIPPED, ERRORED}]_vars

\* C15 witness: the second resolve() call returned and ran the recorder, as
\* the first had.
C15_Witness ==
  /\ lastOp.op = "resolve"
  /\ nResolve = 2
  /\ ~lastOp.threw
  /\ lastOp.recorderRuns = 1
  /\ lastOp.edgeCalls # <<>>
  /\ RecordTraits # {}

\* ------------------------------------------------- a class with a collision

\* Class A with the decorators of the two PRIMARY handlers 1 and 3, before
\* class B with the decorator of handler 1 in the same file.
CollisionProgram == Program(<<"A", "B">>, <<>>, {1, 3}, {1})

CollisionInit ==
  /\ handlers = MainHandlers
  /\ program = CollisionProgram
  /\ scanInput = [clazz |-> "A", eligible |-> FALSE, detects |-> {}]
  /\ scanIdx = 1
  /\ scanRecord = NullRecord
  /\ scanCalls = <<>>
  /\ scanPc = "idle"
  /\ ProgInit

\* Every operation of the compiler, in any order.
CollisionNext ==
  \/ analyzeSync \/ analyzeAsync \/ PreanalysisSettles \/ resolveCall
  \/ typeCheckCall \/ indexCall \/ compileCall \/ decoratorsForCall

SpecCollision == CollisionInit /\ [][CollisionNext]_vars

\* The record of class c has metaDiagnostics set.
Collided(c) == ~classes[c].isNull /\ ~classes[c].metaDiagnostics.isNull

\* The class of a trait a step handed to a handler: a trait the step made is
\* in the heap after it, any other in the heap before it.
ClassOfInvoked(t) == IF t \in 1..Len(heap) THEN heap[t].clazz ELSE heap'[t].clazz

\* C17: a class whose record has metaDiagnostics set by a collision has no
\* trait, so that no preanalyze, analyze, resolve, typeCheck, index or compile
\* of any handler is invoked for it by any later operation; its record keeps
\* metaDiagnostics set, and `diagnostics` contains the collision diagnostic of
\* the class in every state.
C17_CollidedClassExcluded ==
  /\ [](\A c \in Classes : Collided(c) =>
          /\ classes[c].traits = <<>>
          /\ \A t \in 1..Len(heap) : heap[t].clazz # c
          /\ CollisionDiagnostic(c) \in SeqToSet(diagnostics))
  /\ [][\A c \in Classes :
          /\ Collided(c) => Collided(c)'
          /\ Collided(c) => \A inv \in lastOp'.invoked : ClassOfInvoked(inv[2]) # c]_vars

\* C17 witness: after analysis and resolve(), compile() of the collided class
\* A returned null without invoking a handler, while the trait of class B in
\* the same file is RESOLVED and the collision diagnostic is reported.
C17_Witness ==
  /\ Collided("A")
  /\ lastOp.op = "compile"
  /\ lastOp.arg = "A"
  /\ lastOp.invoked = {}
  /\ lastOp.returnsNull
  /\ nResolve >= 1
  /\ CollisionDiagnostic("A") \in SeqToSet(diagnostics)
  /\ \E t \in SeqToSet(classes["B"].traits) : heap[t].state = RESOLVED

\* ------------------------------------------------ claims on the re-export table

\* The re-export table rm after the requests of the results rs, from the k-th
\* on, were written in order; hp: the heap, for the file of each trait.
RECURSIVE WriteRequests(_, _, _, _)
WriteRequests(rm, rs, hp, k) ==
  IF k > Len(rs) THEN rm
  ELSE WriteRequests(
         IF rs[k].reexports = "undefined" THEN rm
         ELSE [rm EXCEPT ![getSourceFile(hp[rs[k].trait].clazz)] =
                 [present |-> TRUE, byAlias |-> [a \in Aliases |-> rs[k].reexports]]],
         rs, hp, k + 1)

\* C11 as stated: only a resolve() step changes the re-export table, and a
\* resolve() step in which no handler.resolve succeeded (no trait went from
\* ANALYZED to RESOLVED through its handler) leaves the table as it was.
C11_ReexportsOnlyOnSuccess ==
  [][/\ reexportMap' # reexportMap => nResolve' = nResolve + 1
     /\ (\A t \in 1..Len(heap) :
           ~(heap[t].state = ANALYZED /\ heap'[t].state = RESOLVED /\ heap'[t].resolveCalls = 1))
          => reexportMap' = reexportMap]_vars

\* C11 amended: only a resolve() step changes the re-export table, and after
\* it the table is the one before with the re-export requests of every result
\* handler.resolve returned written in record-then-trait order, a later write
\* for a (file, alias) replacing the earlier: the requests of a result with
\* data (trait RESOLVED) and of a result with diagnostics (trait ERRORED)
\* alike; a handler.resolve that threw returned no result and writes nothing.
C11_ReexportsOfEveryResult ==
  [][/\ reexportMap' # reexportMap => nResolve' = nResolve + 1
     /\ nResolve' = nResolve + 1 =>
          /\ reexportMap' = WriteRequests(reexportMap, lastOp'.returned, heap, 1)
          /\ \A i \in 1..Len(lastOp'.returned) :
               LET t == lastOp'.returned[i].trait
               IN /\ heap[t].state = ANALYZED
                  /\ lastOp'.returned[i].kind \in {"fatal", "throw"}
                       => lastOp'.returned[i].reexports = "undefined"
                  /\ lastOp'.returned[i].kind = "diagnostics" => heap'[t].state = ERRORED
                  /\ lastOp'.returned[i].kind \in {"data", "nodata"} => heap'[t].state = RESOLVED]_vars

\* C11 witness: resolve() left a trait ERRORED by the diagnostics of its
\* result, and the table of its file holds the re-export that result asked for.
C11_Witness ==
  /\ lastOp.op = "resolve"
  /\ \E i \in 1..Len(lastOp.returned) :
       /\ lastOp.returned[i].kind = "diagnostics"
       /\ lastOp.returned[i].reexports = "mod2#sym2"
       /\ heap[lastOp.returned[i].trait].state = ERRORED
       /\ reexportMap[getSourceFile(heap[lastOp.returned[i].trait].clazz)].byAlias["alias1"]
            = "mod2#sym2"
       /\ \A j \in 1..Len(lastOp.returned) : j # i => lastOp.returned[j].reexports = "undefined"

\* --------------------------------------------------- claims on the join

\* The analyzeAsync calls that returned a join.
Joined == {k \in 1..Len(joins) : joins[k] # "none"}

\* C12 as stated: a join that has settled has no preanalysis task of its call
\* still pending, and when it has fulfilled no trait in the records of the file
\* of its call is PENDING.
C12_JoinSettlesAfterAllTasks ==
  \A k \in Joined :
    /\ joins[k] \in {"fulfilled", "rejected"} => ~\E task \in tasks : task.call = k
    /\ joins[k] = "fulfilled" =>
         \A t \in RecordTraits :
           (\E u \in 1..Len(heap) : heap[u].call = k /\ heap[u].clazz = heap[t].clazz)
             => heap[t].state # PENDING

\* C12 amended: a join is pending only while a task of its call is pending; it
\* fulfils only when every task of its call has fulfilled and its chained
\* analyze has returned, and then no trait made by that call is PENDING; a task
\* that is rejected, or whose chained analyze throws, rejects the join at once,
\* whether or not other tasks of the call are still pending. (A call that
\* threw returned no join; the tasks it had queued settle unobserved.)
C12_JoinFulfilsAfterAllTasks ==
  /\ [](\A k \in Joined :
          /\ joins[k] = "pending" => \E task \in tasks : task.call = k
          /\ joins[k] = "fulfilled" =>
               /\ ~\E task \in tasks : task.call = k
               /\ \A t \in 1..Len(heap) : heap[t].call = k => heap[t].state # PENDING)
  /\ [][lastOp'.op = "preanalysisSettles" =>
          \A task \in {u \in tasks \ tasks' : u.call \in Joined} :
            /\ lastOp'.threw => joins'[task.call] = "rejected"
            /\ joins'[task.call] = "fulfilled" =>
                 (~lastOp'.threw /\ <<"analyze", task.trait>> \in lastOp'.invoked)]_vars

\* C12 witness: a join was rejected while another task of its call is still
\* pending.
C12_Witness ==
  \E k \in Joined :
    /\ joins[k] = "rejected"
    /\ \E task \in tasks : task.call = k

\* ------------------------------------------------ claims on resolve() order

\* The traits of the records in the order resolve() visits them.
Order == TraitOrder(classes, classOrder)

\* The place in Order of the first PENDING trait, 0 if there is none.
FirstPending ==
  IF \E k \in 1..Len(Order) : heap[Order[k]].state = PENDING
    THEN CHOOSE k \in 1..Len(Order) :
           /\ heap[Order[k]].state = PENDING
           /\ \A j \in 1..(k - 1) : heap[Order[j]].state # PENDING
    ELSE 0

\* C13 as stated: a resolve() call made while a record holds a PENDING trait
\* throws, invokes no handler.resolve and changes the state of no trait.
C13_NoResolveWhilePending ==
  [][(nResolve' = nResolve + 1 /\ FirstPending # 0) =>
       /\ lastOp'.threw
       /\ lastOp'.invoked = {}
       /\ \A t \in 1..Len(heap) : heap'[t].state = heap[t].state]_vars

\* C13 amended: a resolve() call made while a record holds a PENDING trait
\* throws and does not run the dependency recorder; it throws 'has not been
\* analyzed' on reaching the first PENDING trait unless an earlier trait made
\* it throw; the first PENDING trait and every trait after it in
\* record-then-trait order are left as they were and their handler.resolve is
\* not invoked, while the ANALYZED traits before it are resolved as usual.
C13_ResolveThrowsAtFirstPending ==
  [][(nResolve' = nResolve + 1 /\ FirstPending # 0) =>
       /\ lastOp'.threw
       /\ lastOp'.recorderRuns = 0
       /\ edges' = edges
       /\ \A k \in FirstPending..Len(Order) :
            /\ heap'[Order[k]] = heap[Order[k]]
            /\ <<"resolve", Order[k]>> \notin lastOp'.invoked
       /\ \/ lastOp'.error = "Resolving a trait that hasn't been analyzed"
          \/ /\ lastOp'.error = "Resolving an already resolved trait"
             /\ \E j \in 1..(FirstPending - 1) : heap[Order[j]].state = RESOLVED
          \/ /\ lastOp'.error = "handler.resolve threw"
             /\ \E j \in 1..(FirstPending - 1) : heap'[Order[j]].resolveDid = "throw"
       /\ (\A j \in 1..(FirstPending - 1) :
             /\ heap[Order[j]].state # RESOLVED
             /\ heap'[Order[j]].resolveDid # "throw")
            => /\ lastOp'.error = "Resolving a trait that hasn't been analyzed"
               /\ \A j \in 1..(FirstPending - 1) :
                    heap[Order[j]].state = ANALYZED
                      => heap'[Order[j]].state \in {RESOLVED, ERRORED}]_vars

\* C13 witness: resolve() threw 'has not been analyzed' at a PENDING trait
\* after it had invoked handler.resolve for a trait before it, now RESOLVED.
C13_Witness ==
  /\ lastOp.op = "resolve"
  /\ lastOp.error = "Resolving a trait that hasn't been analyzed"
  /\ FirstPending > 1
  /\ \E j \in 1..(FirstPending - 1) :
       /\ <<"resolve", Order[j]>> \in lastOp.invoked
       /\ heap[Order[j]].state = RESOLVED

\* ------------------------------------------- claims on errors that propagate

\* The traits whose handler.analyze threw an error that is no
\* FatalDiagnosticError in the step, and those whose handler.resolve did.
AnalyzeThrew ==
  {t \in 1..Len(heap') : <<"analyze", t>> \in lastOp'.invoked /\ heap'[t].analyzeDid = "throw"}

ResolveThrew ==
  {t \in 1..Len(heap') : <<"resolve", t>> \in lastOp'.invoked /\ heap'[t].resolveDid = "throw"}

\* Trait t is, after the step, as its finished analysis left it.
AnalysisKept(t) ==
  CASE heap'[t].analyzeDid = "analysis" ->
         heap'[t].state = ANALYZED /\ heap'[t].analysis = "analysis"
    [] heap'[t].analyzeDid = "nothing" -> heap'[t].state = SKIPPED
    [] heap'[t].analyzeDid \in {"diagnostics", "fatal"} ->
         heap'[t].state = ERRORED /\ heap'[t].diagnostics # <<>>
    [] OTHER -> heap'[t].state = PENDING

\* No diagnostic of `diagnostics` after the step stems from trait t.
NoDiagnosticOf(t) ==
  \A i \in 1..Len(diagnostics') : diagnostics'[i].origin # t

\* The place of trait t in the order of resolve().
PlaceOf(t) == CHOOSE k \in 1..Len(Order) : Order[k] = t

C19_AnalyzeOncePerTrait ==
  /\ [](/\ lastOp.error # "Attempt to analyze trait"
        /\ \A t \in 1..Len(heap) : heap[t].analyzeCalls <= 1
        /\ \A task \in tasks :
             heap[task.trait].state = PENDING /\ heap[task.trait].analyzeCalls = 0)
  /\ [][\A t \in 1..Len(heap') :
          <<"analyze", t>> \in lastOp'.invoked =>
            IF t > Len(heap)
              THEN /\ lastOp'.op \in {"analyzeSync", "analyzeAsync"}
                   /\ ~\E task \in tasks' : task.trait = t
              ELSE /\ lastOp'.op = "preanalysisSettles"
                   /\ heap[t].state = PENDING
                   /\ heap[t].analyzeCalls = 0
                   /\ \E task \in tasks \ tasks' : task.trait = t]_vars

\* C19 witness: the file was analyzed twice with deferred preanalysis, and the
\* task of a trait of the second call has completed and its analyze has run,
\* once.
C19_Witness ==
  /\ lastOp.op = "preanalysisSettles"
  /\ nAnalyze = 2
  /\ joins[1] # "none"
  /\ \E t \in RecordTraits :
       /\ <<"analyze", t>> \in lastOp.invoked
       /\ heap[t].call = 2
       /\ heap[t].analyzeCalls = 1
       /\ heap[t].state = ANALYZED

\* --------------------------------------------- claims on a finished resolve

\* C20: a resolve() call that returns normally leaves every trait of every
\* record RESOLVED, SKIPPED or ERRORED, whether or not analysis had completed
\* before it: a trait it found ANALYZED whose handler has no resolve is
\* RESOLVED with a null resolution and without a handler call, for a trait it
\* found ANALYZED whose handler has resolve that method was invoked exactly
\* once in the call, and for no other trait was it invoked.
C20_ResolveLeavesFinalStates ==
  [][lastOp'.op = "resolve" /\ nResolve' = nResolve + 1 /\ ~lastOp'.threw =>
       \A t \in RecordTraits :
         /\ heap'[t].state \in {RESOLVED, SKIPPED, ERRORED}
         /\ IF heap[t].state = ANALYZED /\ handlers[heap[t].handler].resolve
              THEN /\ <<"resolve", t>> \in lastOp'.invoked
                   /\ heap'[t].resolveCalls = heap[t].resolveCalls + 1
                   /\ Len(SelectSeq(lastOp'.returned, LAMBDA e : e.trait = t)) = 1
              ELSE /\ <<"resolve", t>> \notin lastOp'.invoked
                   /\ heap'[t].resolveCalls = heap[t].resolveCalls
                   /\ SelectSeq(lastOp'.returned, LAMBDA e : e.trait = t) = <<>>
         /\ heap[t].state = ANALYZED /\ ~handlers[heap[t].handler].resolve =>
              heap'[t].state = RESOLVED /\ heap'[t].resolution = "null"]_vars

\* C20 witness: the join of an analyzeAsync call has fulfilled, no task is
\* pending, and resolve() has returned normally with one trait RESOLVED with
\* null without handler.resolve and another after one handler.resolve call.
C20_Witness ==
  /\ lastOp.op = "resolve"
  /\ ~lastOp.threw
  /\ tasks = {}
  /\ \E k \in Joined : joins[k] = "fulfilled"
  /\ \E t \in RecordTraits, u \in RecordTraits :
       /\ ~handlers[heap[t].handler].resolve
       /\ heap[t].state = RESOLVED
       /\ heap[t].resolution = "null"
       /\ heap[t].resolveCalls = 0
       /\ handlers[heap[u].handler].resolve
       /\ <<"resolve", u>> \in lastOp.invoked
       /\ heap[u].resolveCalls = 1
       /\ heap[u].state \in {RESOLVED, ERRORED}

\* ---------------------------------------------------- claims on the lifecycle

AnalyzeOps == {"analyzeSync", "analyzeAsync", "preanalysisSettles"}

\* A step in which trait t changes state the way the lifecycle table allows:
\* PENDING to ANALYZED, SKIPPED or ERRORED in an analyze step, ANALYZED to
\* RESOLVED or ERRORED in resolve().
LegalTransition(t) ==
  \/ /\ heap[t].state = PENDING
     /\ heap'[t].state \in {ANALYZED, SKIPPED, ERRORED}
     /\ lastOp'.op \in AnalyzeOps
  \/ /\ heap[t].state = ANALYZED
     /\ heap'[t].state \in {RESOLVED, ERRORED}
     /\ lastOp'.op = "resolve"

\* C4: in every step, a trait that changes state does so along the lifecycle
\* table, so no RESOLVED, SKIPPED or ERRORED trait changes state again and none
\* returns to PENDING or ANALYZED (a trait no record or promise refers to any
\* more leaves the heap).
C4_LifecycleOnly ==
  [][\A t \in 1..Len(heap) :
       (heap'[t].state # heap[t].state /\ heap'[t].state # "COLLECTED") => LegalTransition(t)]_vars

\* C4 witness: a second resolve() was attempted while one trait was RESOLVED
\* and another ERRORED by its resolve.
C4_Witness ==
  /\ nResolve = 2
  /\ \E t, u \in RecordTraits :
       /\ heap[t].state = RESOLVED
       /\ heap[u].state = ERRORED /\ heap[u].resolveDid = "diagnostics"

\* C5 as stated: every second resolve() call throws.
C5_SecondResolveThrows ==
  (lastOp.op = "resolve" /\ nResolve >= 2) => lastOp.threw

\* C5 amended: a resolve() call made while a record holds a RESOLVED trait
\* throws, and it throws 'already resolved' when the first trait in order that
\* is not SKIPPED or ERRORED is RESOLVED; a call made when every trait of every
\* record is SKIPPED or ERRORED returns normally and runs the dependency
\* recorder.
C5_ResolveThrowsOnResolvedTrait ==
  [][nResolve' = nResolve + 1 =>
       /\ (\E t \in RecordTraits : heap[t].state = RESOLVED) => lastOp'.threw
       /\ (\E k \in 1..Len(TraitOrder(classes, classOrder)) :
             /\ heap[TraitOrder(classes, classOrder)[k]].state = RESOLVED
             /\ \A j \in 1..(k - 1) :
                  heap[TraitOrder(classes, classOrder)[j]].state \in {SKIPPED, ERRORED})
            => lastOp'.error = "Resolving an already resolved trait"
       /\ (\A t \in RecordTraits : heap[t].state \in {SKIPPED, ERRORED})
            => (~lastOp'.threw /\ lastOp'.recorderRuns = 1)]_vars

\* C5 witness: the second resolve() call threw 'already resolved'.
C5_Witness ==
  /\ lastOp.op = "resolve"
  /\ nResolve = 2
  /\ lastOp.threw
  /\ lastOp.error = "Resolving an already resolved trait"

\* The diagnostic of the FatalDiagnosticError handler.analyze threw for trait t.
AnalyzeFatal(t) == HandlerDiagnostic("ANALYZE_FATAL", heap[t].clazz, t)

\* C8: a trait whose handler.analyze threw a FatalDiagnosticError is ERRORED
\* with exactly that diagnostic, which `diagnostics` includes while a record
\* holds the trait; analyzeSync went on to call analyze for the next trait of
\* the class; and after a resolve() that returned, a sibling whose analyze gave
\* an analysis and whose resolve (if any) returned a result is RESOLVED.
C8_FatalAnalyzeErrorsOnlyItsTrait ==
  /\ \A t \in 1..Len(heap) :
       heap[t].analyzeDid = "fatal" =>
         /\ heap[t].state = ERRORED
         /\ heap[t].diagnostics = <<AnalyzeFatal(t)>>
         /\ t \in RecordTraits => AnalyzeFatal(t) \in SeqToSet(diagnostics)
  /\ \A c \in Classes : \A k \in 1..Len(classes[c].traits) :
       ( /\ lastOp.op = "analyzeSync"
         /\ lastOp.arg = getSourceFile(c)
         /\ k < Len(classes[c].traits)
         /\ heap[classes[c].traits[k]].analyzeDid = "fatal" )
       => heap[classes[c].traits[k + 1]].analyzeCalls = 1
  /\ \A c \in Classes : \A k, j \in 1..Len(classes[c].traits) :
       LET t == classes[c].traits[k]
           u == classes[c].traits[j]
       IN ( /\ lastOp.op = "resolve"
            /\ ~lastOp.threw
            /\ heap[t].analyzeDid = "fatal"
            /\ heap[u].analyzeDid = "analysis"
            /\ (handlers[heap[u].handler].resolve => heap[u].resolveDid \in {"data", "nodata"}) )
          => heap[u].state = RESOLVED

\* C8 witness: resolve() returned, leaving a trait ERRORED by the
\* FatalDiagnosticError of its analyze and its sibling RESOLVED.
C8_Witness ==
  /\ lastOp.op = "resolve"
  /\ ~lastOp.threw
  /\ \E c \in Classes : \E k, j \in 1..Len(classes[c].traits) :
       /\ heap[classes[c].traits[k]].analyzeDid = "fatal"
       /\ heap[classes[c].traits[k]].state = ERRORED
       /\ AnalyzeFatal(classes[c].traits[k]) \in SeqToSet(diagnostics)
       /\ heap[classes[c].traits[j]].state = RESOLVED

\* ------------------------------------------------------- claims on the reads

\* The first result of the name n among the results rs.
FirstOfName(rs, n) ==
  rs[CHOOSE k \in 1..Len(rs) :
       rs[k].name = n /\ \A j \in 1..(k - 1) : rs[j].name # n]

\* C6: compile() returns no two results of the same name; of the results the
\* RESOLVED traits produced, in trait order, it keeps for every name the first
\* one produced and drops the later ones, whether they came one at a time or
\* in a list.
C6_CompileDedupesByName ==
  lastOp.op = "compile" =>
    /\ \A i, j \in 1..Len(lastOp.result) :
         lastOp.result[i].name = lastOp.result[j].name => i = j
    /\ \A i \in 1..Len(lastOp.result) :
         lastOp.result[i] = FirstOfName(lastOp.produced, lastOp.result[i].name)
    /\ \A k \in 1..Len(lastOp.produced) :
         \E i \in 1..Len(lastOp.result) : lastOp.result[i].name = lastOp.produced[k].name

\* C6 witness: two RESOLVED traits each produced a result named "x", one alone
\* and one in a list, and compile() kept one "x" and one "y".
C6_Witness ==
  /\ lastOp.op = "compile"
  /\ Len(lastOp.result) = 2
  /\ \E i, j \in 1..Len(lastOp.produced) :
       /\ lastOp.produced[i].name = "x" /\ lastOp.produced[j].name = "x"
       /\ lastOp.produced[i].trait # lastOp.produced[j].trait

\* C7: compile() of a declaration without a record returns null, calls no
\* handler and registers nothing; with a record it calls addFields once, for
\* the original declaration and with the deduplicated results, also when there
\* are none, and returns null exactly when there are none and the results
\* otherwise.
C7_CompileRegistersOnce ==
  lastOp.op = "compile" =>
    IF isNamedClassDeclaration(lastOp.arg) /\ HasRecord(classes, getOriginalNode(lastOp.arg))
      THEN /\ lastOp.addFields =
                <<[node |-> getOriginalNode(lastOp.arg), fields |-> lastOp.result]>>
           /\ lastOp.returnsNull <=> (lastOp.result = <<>>)
           /\ lastOp.invoked =
                {<<"compile", t>> : t \in {u \in SeqToSet(classes[getOriginalNode(lastOp.arg)].traits) :
                                             heap[u].state = RESOLVED}}
      ELSE /\ lastOp.returnsNull
           /\ lastOp.result = <<>>
           /\ lastOp.addFields = <<>>
           /\ lastOp.invoked = {}

\* C7 witness: compile() of the transformed copy of A, whose record has traits
\* but none RESOLVED, registered an empty list for A and returned null.
C7_Witness ==
  /\ lastOp.op = "compile"
  /\ lastOp.arg = "A2"
  /\ classes["A"].traits # <<>>
  /\ lastOp.addFields = <<[node |-> "A", fields |-> <<>>]>>
  /\ lastOp.returnsNull

\* The traits a read handed to a handler or whose trigger it returned.
ReadTraits ==
  {c[2] : c \in lastOp.invoked} \cup {lastOp.decorators[i].trait : i \in 1..Len(lastOp.decorators)}

\* C10: typeCheck, index and compile invoke the handler for RESOLVED traits
\* only, decoratorsFor returns triggers of RESOLVED traits only, and a step of
\* any of the four leaves every trait, every record and the re-export table
\* as they were.
C10_ReadsOnlyResolved ==
  /\ [](lastOp.op \in ReadOps => \A t \in ReadTraits : heap[t].state = RESOLVED)
  /\ [][lastOp'.op \in ReadOps => UNCHANGED <<heap, classes, classOrder, reexportMap>>]_vars

\* C10 witness: after reads before it, decoratorsFor of the transformed copy
\* of A returned the one trigger of a RESOLVED trait while another trait of A
\* is not RESOLVED.
C10_Witness ==
  /\ lastOp.op = "decoratorsFor"
  /\ lastOp.arg = "A2"
  /\ Len(lastOp.decorators) = 1
  /\ \E t \in SeqToSet(classes["A"].traits) : heap[t].state \in {ERRORED, SKIPPED}

\* ------------------------------------------------------- claims on matching

\* The traits of record r that come from a handler of precedence prec.
TraitsOfPrecedence(r, prec) ==
  {k \in 1..Len(r.traits) : handlers[r.traits[k]].precedence = prec}

\* The handlers of precedence prec whose detect matches the scanned class.
DetectingOfPrecedence(prec) ==
  {i \in scanInput.detects : handlers[i].precedence = prec}

\* C16: after every handler matching has processed, the collision step
\* included, hasPrimaryHandler is true exactly when traits holds a trait of a
\* PRIMARY handler, and hasWeakHandlers exactly when it holds one of a WEAK
\* handler.
C16_FlagsInSyncWithTraits ==
  ~scanRecord.isNull =>
    /\ scanRecord.hasPrimaryHandler <=> TraitsOfPrecedence(scanRecord, PRIMARY) # {}
    /\ scanRecord.hasWeakHandlers <=> TraitsOfPrecedence(scanRecord, WEAK) # {}

\* C1: the record produced by matching holds at most one trait from a PRIMARY
\* handler, and whenever its metaDiagnostics is non-null its traits list is
\* empty, for every registry and every set of detecting handlers.
C1_AtMostOnePrimary ==
  scanPc = "returned" =>
    /\ Cardinality(TraitsOfPrecedence(scanRecord, PRIMARY)) <= 1
    /\ ~scanRecord.metaDiagnostics.isNull => scanRecord.traits = <<>>

\* C1 witness: matching returned a record that holds a PRIMARY trait beside
\* another trait, out of a registry with two PRIMARY handlers.
C1_Witness ==
  /\ scanPc = "returned"
  /\ Len(scanRecord.traits) >= 2
  /\ Cardinality(TraitsOfPrecedence(scanRecord, PRIMARY)) = 1
  /\ Cardinality({i \in 1..Len(handlers) : handlers[i].precedence = PRIMARY}) >= 2

\* C2: after matching, a WEAK trait is in the record only if no non-WEAK
\* handler detected the class; with a WEAK handler registered before a PRIMARY
\* handler and exactly these two matching, the traits are the PRIMARY trait only.
C2_WeakOnlyWithoutNonWeak ==
  scanPc = "returned" =>
    /\ TraitsOfPrecedence(scanRecord, WEAK) # {} =>
         \A i \in scanInput.detects : handlers[i].precedence = WEAK
    /\ \A i, j \in 1..Len(handlers) :
         ( /\ i < j
           /\ handlers[i].precedence = WEAK
           /\ handlers[j].precedence = PRIMARY
           /\ scanInput.eligible
           /\ scanInput.detects = {i, j} ) => scanRecord.traits = <<j>>

\* C2 witness: a WEAK handler and a later PRIMARY handler both detected the
\* class and matching returned.
C2_Witness ==
  /\ scanPc = "returned"
  /\ scanInput.eligible
  /\ \E i, j \in scanInput.detects :
       /\ i < j
       /\ handlers[i].precedence = WEAK
       /\ handlers[j].precedence = PRIMARY
       /\ scanInput.detects = {i, j}

\* The position of the second PRIMARY handler that detects the class (0 when
\* fewer than two do).
SecondPrimary ==
  LET P == DetectingOfPrecedence(PRIMARY)
  IN IF Cardinality(P) < 2 THEN 0
     ELSE CHOOSE j \in P : Cardinality({i \in P : i < j}) = 1

\* C3: once the second detecting PRIMARY handler has been processed,
\* metaDiagnostics is exactly one 'incompatible decorators' diagnostic anchored
\* at the class, traits is empty, matching has returned, and detect was called
\* for no handler after that one.
C3_CollisionStops ==
  ( /\ scanInput.eligible
    /\ SecondPrimary # 0
    /\ scanIdx > SecondPrimary ) =>
    /\ scanRecord.metaDiagnostics = SomeDiagnostics(<<CollisionDiagnostic(scanInput.clazz)>>)
    /\ scanRecord.metaDiagnostics.list[1].messageText = "Two incompatible decorators on class"
    /\ scanRecord.traits = <<>>
    /\ scanPc = "returned"
    /\ scanCalls = [k \in 1..SecondPrimary |-> k]

\* C3 witness: a collision happened while a later handler that detects the
\* class was still ahead in the registry.
C3_Witness ==
  /\ scanInput.eligible
  /\ SecondPrimary # 0
  /\ scanIdx > SecondPrimary
  /\ \E k \in scanInput.detects : k > SecondPrimary

====
